---- MODULE Spec2Model ----
(***************************************************************************)
(* Model of cpim.py, the CMSIS pack index monitor.                         *)
(*                                                                         *)
(* PackIndexMonitorTool.run drives cycles; each cycle calls                *)
(* PackIndexMonitor.check_pdscs, which fetches the index, filters the      *)
(* descriptors by vendor, submits one GET per filtered descriptor to a     *)
(* ThreadPoolExecutor and collects the failures.                           *)
(*                                                                         *)
(* Strings the program computes with (vendors, urls) are sequences of      *)
(* one-character strings, so that casefold, strip and joins are computed.  *)
(***************************************************************************)
EXTENDS Integers, Sequences, FiniteSets, TLC

VARIABLES
    interval,     \* args.interval
    isatty,       \* sys.stdout.isatty()
    argVendors,   \* args.vendors
    logfile,      \* args.log is given: run writes the log file
    pc,           \* position of the main thread in run / check_pdscs
    cycle,        \* number of cycles started by the while loop of run
    interrupted,  \* a KeyboardInterrupt has been delivered to the main thread
    exc,          \* exception propagating in the main thread ("none" if none)
    exitCode,     \* exit status of the process (-1 while it runs)
    notice,       \* "Interrupted by user" has been printed
    idxRequests,  \* GET requests issued for the index in this cycle
    ts,           \* the timestamp retrieve_index returned in this cycle (None if none)
    filtered,     \* filtered_pdscs of the current cycle
    nsub,         \* futures submitted so far (futures_map holds 1..nsub)
    nstarted,     \* work items a worker has taken from the FIFO work queue
    running,      \* requests in flight (work items being executed)
    hung,         \* requests in flight whose call will never return
    result,       \* finished futures: index -> result of the submitted call
    happened,     \* what the server did with each request that has ended or hangs
    completed,    \* futures in the order in which they finished
    acStarted,    \* as_completed has installed its waiter
    acFinished,   \* as_completed: futures already finished at that moment
    acQueue,      \* as_completed: waiter.finished_futures, in completion order
    consumed,     \* futures whose result the for loop of check_pdscs has got, in order
    failures,     \* the failures list of check_pdscs / run
    reports,      \* number of cycles whose summary run has printed
    log,          \* lines run has appended to the log file
    idxHappened,  \* what the server did with the index request of this cycle (None if none yet)
    gets,         \* GET requests issued in this cycle, as they start: url, and the descriptor it is of
    joinInterrupted, \* a KeyboardInterrupt ended the wait of executor.shutdown
    poolN,        \* SpecPool: number of descriptors to submit
    poolSub,      \* SpecPool: work items submitted
    poolStarted,  \* SpecPool: work items taken by a worker
    poolRunning,  \* SpecPool: number of requests in flight
    poolDone      \* SpecPool: number of finished futures

mainVars == <<interval, isatty, argVendors, logfile, pc, cycle, interrupted, exc, exitCode,
              notice, idxRequests, ts, filtered, nsub, nstarted, running, hung, result,
              happened, completed, acStarted, acFinished, acQueue, consumed, failures,
              reports, log, idxHappened, gets, joinInterrupted>>
poolVars == <<poolN, poolSub, poolStarted, poolRunning, poolDone>>
vars == <<mainVars, poolVars>>

----------------------------------------------------------------------------
(* Bounds of the model *)

MaxPdscs == 3     \* pdsc elements in an index document
MaxCycles == 2    \* cycles the while loop of run is followed for
MaxProbes == 34   \* descriptors submitted to the executor in SpecPool

----------------------------------------------------------------------------
(* Strings *)

Lower == [c \in {"K", "E", "I", "L", "A", "R", "M"} |->
            CASE c = "K" -> "k" [] c = "E" -> "e" [] c = "I" -> "i"
              [] c = "L" -> "l" [] c = "A" -> "a" [] c = "R" -> "r"
              [] c = "M" -> "m"]

\* str.casefold on the characters the model uses
casefold(s) == [i \in DOMAIN s |-> IF s[i] \in DOMAIN Lower THEN Lower[s[i]] ELSE s[i]]

RECURSIVE lstrip(_)
lstrip(s) == IF s # <<>> /\ Head(s) = " " THEN lstrip(Tail(s)) ELSE s

RECURSIVE rstrip(_)
rstrip(s) == IF s # <<>> /\ s[Len(s)] = " " THEN rstrip(SubSeq(s, 1, Len(s) - 1)) ELSE s

\* str.strip
strip(s) == rstrip(lstrip(s))

endswith(s, c) == s # <<>> /\ s[Len(s)] = c

\* positions of character c in s
Positions(s, c) == {i \in DOMAIN s : s[i] = c}

Min(S) == CHOOSE x \in S : \A y \in S : x <= y
Max(S) == CHOOSE x \in S : \A y \in S : x >= y

RECURSIVE split(_, _)
\* str.split(c)
split(s, c) ==
    IF Positions(s, c) = {} THEN <<s>>
    ELSE LET i == Min(Positions(s, c))
         IN  <<SubSeq(s, 1, i - 1)>> \o split(SubSeq(s, i + 1, Len(s)), c)

RECURSIVE join(_, _)
\* c.join(segs)
join(segs, c) ==
    IF segs = <<>> THEN <<>>
    ELSE IF Len(segs) = 1 THEN segs[1]
    ELSE segs[1] \o <<c>> \o join(Tail(segs), c)

RECURSIVE SelectNonEmpty(_)
\* filter(None, segs)
SelectNonEmpty(segs) ==
    IF segs = <<>> THEN <<>>
    ELSE IF Head(segs) = <<>> THEN SelectNonEmpty(Tail(segs))
    ELSE <<Head(segs)>> \o SelectNonEmpty(Tail(segs))

----------------------------------------------------------------------------
(* urllib.parse.urljoin, as get_pdsc_url uses it *)

Letters == {"a", "c", "d", "e", "h", "i", "k", "l", "m", "p", "r", "s", "t", "x",
            "A", "E", "I", "K", "L", "M", "R"}
Digits == {"0", "1", "2", "3", "4", "5", "6", "7", "8", "9"}
SchemeChars == Letters \cup Digits \cup {"+", "-", "."}
Http == <<"h", "t", "t", "p">>
\* urllib.parse.uses_relative, restricted to the schemes of the model
UsesRelative == {<<>>, Http}

\* position of the ":" that ends the scheme of u, 0 if u has no scheme
SchemeEnd(u) ==
    IF /\ Positions(u, ":") # {}
       /\ Min(Positions(u, ":")) > 1
       /\ u[1] \in Letters
       /\ \A j \in 1..(Min(Positions(u, ":")) - 1) : u[j] \in SchemeChars
    THEN Min(Positions(u, ":")) ELSE 0

\* s from position i on
From(s, i) == SubSeq(s, i, Len(s))
\* s up to, not including, the first position in ps (all of s if ps is empty)
Before(s, ps) == IF ps = {} THEN s ELSE SubSeq(s, 1, Min(ps) - 1)
\* s after the first position in ps (empty if ps is empty)
After(s, ps) == IF ps = {} THEN <<>> ELSE SubSeq(s, Min(ps) + 1, Len(s))

\* urlsplit: u without its scheme
AfterScheme(u) == IF SchemeEnd(u) > 0 THEN From(u, SchemeEnd(u) + 1) ELSE u
HasNetloc(r) == Len(r) >= 2 /\ r[1] = "/" /\ r[2] = "/"
NetlocDelims(r) == {j \in DOMAIN r : r[j] \in {"/", "?", "#"}}
\* urlsplit: the netloc of r, the url without its scheme
NetlocOf(r) == IF HasNetloc(r) THEN Before(From(r, 3), NetlocDelims(From(r, 3))) ELSE <<>>
\* urlsplit: r without its netloc
AfterNetloc(r) ==
    IF ~HasNetloc(r) THEN r
    ELSE IF NetlocDelims(From(r, 3)) = {} THEN <<>>
    ELSE From(From(r, 3), Min(NetlocDelims(From(r, 3))))
\* urlsplit: path, query and fragment of r, the url without scheme and netloc
FragmentOf(r) == After(r, Positions(r, "#"))
QueryOf(r) == After(Before(r, Positions(r, "#")), Positions(Before(r, Positions(r, "#")), "?"))
PathOf(r) == Before(Before(r, Positions(r, "#")), Positions(Before(r, Positions(r, "#")), "?"))

\* urllib.parse.urlsplit(u, scheme=default)
urlsplit(u, default) ==
    [scheme   |-> IF SchemeEnd(u) > 0 THEN casefold(SubSeq(u, 1, SchemeEnd(u) - 1)) ELSE default,
     netloc   |-> NetlocOf(AfterScheme(u)),
     path     |-> PathOf(AfterNetloc(AfterScheme(u))),
     query    |-> QueryOf(AfterNetloc(AfterScheme(u))),
     fragment |-> FragmentOf(AfterNetloc(AfterScheme(u)))]

\* urlunsplit writes "//" before the path
WithSlashes(p) ==
    \/ p.netloc # <<>>
    \/ (p.scheme # <<>> /\ p.scheme \in UsesRelative
        /\ ~(Len(p.path) >= 2 /\ p.path[1] = "/" /\ p.path[2] = "/"))

\* urlunsplit: netloc and path
Hier(p) ==
    IF ~WithSlashes(p) THEN p.path
    ELSE IF p.path # <<>> /\ p.path[1] # "/" THEN <<"/", "/">> \o p.netloc \o <<"/">> \o p.path
    ELSE <<"/", "/">> \o p.netloc \o p.path

\* urllib.parse.urlunsplit
urlunsplit(p) ==
    (IF p.scheme # <<>> THEN p.scheme \o <<":">> ELSE <<>>)
    \o Hier(p)
    \o (IF p.query # <<>> THEN <<"?">> \o p.query ELSE <<>>)
    \o (IF p.fragment # <<>> THEN <<"#">> \o p.fragment ELSE <<>>)

RECURSIVE ResolveDots(_, _)
\* the dot-segment loop of urljoin: acc is resolved_path
ResolveDots(segs, acc) ==
    IF segs = <<>> THEN acc
    ELSE IF Head(segs) = <<".", ".">>
         THEN ResolveDots(Tail(segs), IF acc = <<>> THEN acc ELSE SubSeq(acc, 1, Len(acc) - 1))
    ELSE IF Head(segs) = <<".">> THEN ResolveDots(Tail(segs), acc)
    ELSE ResolveDots(Tail(segs), Append(acc, Head(segs)))

\* urljoin: base_parts, the directory of the base path
BaseParts(bpath) ==
    IF split(bpath, "/")[Len(split(bpath, "/"))] # <<>>
    THEN SubSeq(split(bpath, "/"), 1, Len(split(bpath, "/")) - 1)
    ELSE split(bpath, "/")

\* segments[1:-1] = filter(None, segments[1:-1])
DropEmptyInner(segs) ==
    IF Len(segs) <= 2 THEN segs
    ELSE <<segs[1]>> \o SelectNonEmpty(SubSeq(segs, 2, Len(segs) - 1)) \o <<segs[Len(segs)]>>

\* urljoin: the segments of the joined path, before dot segments are resolved
Segments(bpath, path) ==
    IF path[1] = "/" THEN split(path, "/")
    ELSE DropEmptyInner(BaseParts(bpath) \o split(path, "/"))

\* urljoin: resolved_path of the segments
Resolved(segs) ==
    IF segs[Len(segs)] \in {<<".">>, <<".", ".">>}
    THEN Append(ResolveDots(segs, <<>>), <<>>)
    ELSE ResolveDots(segs, <<>>)

\* '/'.join(resolved_path) or '/'
JoinedPath(segs) == IF join(Resolved(segs), "/") = <<>> THEN <<"/">> ELSE join(Resolved(segs), "/")

\* urljoin, with both urls split
JoinSplit(b, u, url) ==
    IF u.scheme # b.scheme \/ u.scheme \notin UsesRelative THEN url
    ELSE IF u.netloc # <<>> THEN urlunsplit(u)
    ELSE IF u.path = <<>>
    THEN urlunsplit([scheme |-> u.scheme, netloc |-> b.netloc, path |-> b.path,
                     query |-> IF u.query = <<>> THEN b.query ELSE u.query,
                     fragment |-> u.fragment])
    ELSE urlunsplit([scheme |-> u.scheme, netloc |-> b.netloc,
                     path |-> JoinedPath(Segments(b.path, u.path)),
                     query |-> u.query, fragment |-> u.fragment])

\* urllib.parse.urljoin(base, url)
urljoin(base, url) ==
    IF base = <<>> THEN url
    ELSE IF url = <<>> THEN base
    ELSE JoinSplit(urlsplit(base, <<>>), urlsplit(url, urlsplit(base, <<>>).scheme), url)

\* PdscInfo.get_pdsc_url
get_pdsc_url(pdsc) ==
    urljoin(IF endswith(pdsc.url, "/") THEN pdsc.url ELSE pdsc.url \o <<"/">>,
            pdsc.vendor \o <<".">> \o pdsc.name \o <<".", "p", "d", "s", "c">>)

----------------------------------------------------------------------------
(* Program constants *)

\* PackIndexMonitor.PIDX
PIDX == <<"h", "t", "t", "p", ":", "/", "/", "w", "w", "w", ".", "k", "e", "i", "l",
          ".", "c", "o", "m", "/", "p", "a", "c", "k", "/", "i", "n", "d", "e", "x",
          ".", "p", "i", "d", "x">>

\* PackIndexMonitor.REQUEST_TIMEOUT_SECONDS
REQUEST_TIMEOUT_SECONDS == 30

\* ThreadPoolExecutor(max_workers=32)
max_workers == 32

\* PackIndexMonitorTool.DEFAULT_VENDORS
DEFAULT_VENDORS == << <<"K", "e", "i", "l">> >>

\* an optional value is a sequence of at most one element; None is <<>>
None == <<>>
Some(v) == <<v>>

----------------------------------------------------------------------------
(* The transport: what the network does with one GET *)

ValidTimestamp == "2021-06-01T12:00:00"
BadTimestamp == "yesterday"

Digit(i) == CASE i = 1 -> "1" [] i = 2 -> "2" [] i = 3 -> "3" [] i = 4 -> "4"
              [] OTHER -> "9"

\* the i-th pdsc element of the index documents of the model
Element(i) ==
    [url     |-> IF i % 2 = 1 THEN <<"h", "t", "t", "p", ":", "/", "/", "k", "/", "p">>
                 ELSE <<"h", "t", "t", "p", ":", "/", "/", "a", "/", "p", "/">>,
     vendor  |-> CASE i % 3 = 1 -> <<"K", "e", "i", "l">>
                   [] i % 3 = 2 -> <<"A", "R", "M">>
                   [] OTHER     -> <<"K", "E", "I", "L">>,
     name    |-> <<"p", Digit(i)>>,
     version |-> <<"1">>]

\* a pdsc element whose url has a query string
QueryElement ==
    [url     |-> <<"h", "t", "t", "p", ":", "/", "/", "k", "/", "p", "?", "x">>,
     vendor  |-> <<"K", "e", "i", "l">>,
     name    |-> <<"q">>,
     version |-> <<"1">>]

\* a pdsc element with version=""
EmptyVersionElement ==
    [url     |-> <<"h", "t", "t", "p", ":", "/", "/", "k", "/", "p">>,
     vendor  |-> <<"K", "e", "i", "l">>,
     name    |-> <<"e">>,
     version |-> <<>>]

\* drop attribute a from an element
Without(e, a) == [k \in DOMAIN e \ {a} |-> e[k]]

Document(n) == [xml |-> TRUE, timestamp |-> Some(ValidTimestamp),
                pdscs |-> [i \in 1..n |-> Element(i)]]

\* bodies a 200 response for the index may carry
IndexBodies ==
    {Document(n) : n \in 0..MaxPdscs}
    \cup {[xml |-> FALSE, timestamp |-> None, pdscs |-> <<>>],
          [xml |-> TRUE, timestamp |-> None, pdscs |-> <<Element(1)>>],
          [xml |-> TRUE, timestamp |-> Some(BadTimestamp), pdscs |-> <<Element(1)>>],
          [xml |-> TRUE, timestamp |-> Some(ValidTimestamp),
           pdscs |-> <<Without(Element(1), "version")>>],
          [xml |-> TRUE, timestamp |-> Some(ValidTimestamp), pdscs |-> <<QueryElement>>],
          [xml |-> TRUE, timestamp |-> Some(ValidTimestamp), pdscs |-> <<EmptyVersionElement>>]}

NoBody == [xml |-> FALSE, timestamp |-> None, pdscs |-> <<>>]

\* names of the headers the servers of the model send with a response
Headers(status) ==
    IF status = 404 THEN << <<"S", "e", "r", "v", "e", "r">>, <<"D", "a", "t", "e">> >>
    ELSE <<>>

Refuse == [kind |-> "refuse", status |-> 0, body |-> NoBody]
Silent == [kind |-> "silent", status |-> 0, body |-> NoBody]
Respond(status, body) == [kind |-> "respond", status |-> status, body |-> body]

\* what the server of the index may do
IndexBehaviours ==
    {Refuse, Silent, Respond(404, NoBody), Respond(500, NoBody)}
    \cup {Respond(200, b) : b \in IndexBodies}

\* what the server of a pdsc file may do
PdscBehaviours == {Refuse, Silent, Respond(200, NoBody), Respond(404, NoBody)}

\* requests.get(url, timeout=timeout): timeout is None or Some(seconds)
requests_get(url, timeout, b) ==
    CASE b.kind = "respond" ->
           [kind |-> "response", status |-> b.status, body |-> b.body, exc |-> "none", info |-> None]
      [] b.kind = "refuse" ->
           [kind |-> "raise", status |-> 0, body |-> NoBody, exc |-> "ConnectionError", info |-> None]
      [] b.kind = "silent" /\ timeout # None ->
           [kind |-> "raise", status |-> 0, body |-> NoBody, exc |-> "Timeout", info |-> None]
      [] OTHER ->
           [kind |-> "hang", status |-> 0, body |-> NoBody, exc |-> "none", info |-> None]

----------------------------------------------------------------------------
(* PackIndexMonitor *)

\* a requests.Response, as far as RequestFailureInfo.response is read
Response(r) == [status_code |-> r.status, headers |-> Headers(r.status)]

\* RequestFailureInfo(url, status=-1, cause=REQUEST_FAILED, response=None, pdsc=None)
RequestFailureInfo(url, status, cause, response, pdsc) ==
    [url |-> url, status |-> status, cause |-> cause, response |-> response, pdsc |-> pdsc]

\* dateutil.parser.isoparse raises ValueError on a string that is not ISO-8601
isoparse_ok(ts_iso) == ts_iso = ValidTimestamp

\* PackIndexMonitor.retrieve_index, given what the server does
retrieve_index(b) ==
    LET idx_response == requests_get(PIDX, Some(REQUEST_TIMEOUT_SECONDS), b)
        Raise(info) == [kind |-> "raise", exc |-> "RequestError", info |-> Some(info),
                        ts |-> None, pdscs |-> <<>>]
        Escape(e) == [kind |-> "raise", exc |-> e, info |-> None, ts |-> None, pdscs |-> <<>>]
        body == idx_response.body
    IN  IF idx_response.kind = "raise" /\ idx_response.exc = "ConnectionError"
        THEN Raise(RequestFailureInfo(PIDX, -1, "CONNECT_FAILED", None, None))
        ELSE IF idx_response.kind = "raise" /\ idx_response.exc = "Timeout"
        THEN Raise(RequestFailureInfo(PIDX, -1, "REQUEST_TIMEOUT", None, None))
        ELSE IF idx_response.status # 200
        THEN Raise(RequestFailureInfo(PIDX, idx_response.status, "REQUEST_FAILED",
                                      Some(Response(idx_response)), None))
        ELSE IF ~body.xml
        THEN Raise(RequestFailureInfo(PIDX, -1, "INVALID_DATA", None, None))
        ELSE IF body.timestamp = None
        THEN Raise(RequestFailureInfo(PIDX, -1, "INVALID_DATA", None, None))
        ELSE IF ~isoparse_ok(body.timestamp[1])
        THEN Escape("ValueError")
        ELSE IF \E i \in DOMAIN body.pdscs :
                    {"url", "vendor", "name", "version"} \ DOMAIN body.pdscs[i] # {}
        THEN Escape("KeyError")
        ELSE [kind |-> "return", exc |-> "none", info |-> None, ts |-> body.timestamp,
              pdscs |-> [i \in DOMAIN body.pdscs |->
                            [url     |-> body.pdscs[i]["url"],
                             vendor  |-> body.pdscs[i]["vendor"],
                             name    |-> body.pdscs[i]["name"],
                             version |-> body.pdscs[i]["version"]]]]

\* PackIndexMonitor.retrieve_pdsc, given what the server does
retrieve_pdsc(pdsc, b) ==
    LET r == requests_get(get_pdsc_url(pdsc), Some(REQUEST_TIMEOUT_SECONDS), b)
        Info(cause) == [kind |-> "failure_info", status |-> 0, body |-> NoBody, exc |-> "none",
                        info |-> Some(RequestFailureInfo(get_pdsc_url(pdsc), -1, cause, None, None))]
    IN  IF r.kind = "raise" /\ r.exc = "ConnectionError" THEN Info("CONNECT_FAILED")
        ELSE IF r.kind = "raise" /\ r.exc = "Timeout" THEN Info("REQUEST_TIMEOUT")
        ELSE r

\* the callable check_pdscs submits to the executor for one descriptor
SubmittedCall(pdsc, b) == requests_get(get_pdsc_url(pdsc), None, b)

\* the vendors list run builds from args.vendors
Vendors(args_vendors) ==
    LET given == IF args_vendors # <<>> THEN args_vendors ELSE DEFAULT_VENDORS
    IN  [i \in DOMAIN given |-> casefold(strip(given[i]))]

\* PackIndexMonitor._all_vendors
all_vendors(vendors) == \E i \in DOMAIN vendors : vendors[i] = <<"*">>

\* FilterPdscs comparing the vendor as it is written in the index
FilterPdscs_CaseSensitive(pdscs, vendors) ==
    IF all_vendors(vendors) THEN pdscs
    ELSE SelectSeq(pdscs, LAMBDA p : \E i \in DOMAIN vendors : p.vendor = vendors[i])

\* filtered_pdscs of check_pdscs
FilterPdscs(pdscs, vendors) ==
    IF all_vendors(vendors) THEN pdscs
    ELSE SelectSeq(pdscs, LAMBDA p : \E i \in DOMAIN vendors : casefold(p.vendor) = vendors[i])

\* what the body of the for loop of check_pdscs appends to failures for one result
Classify(pdsc, response) ==
    IF response.kind = "failure_info" THEN <<response.info[1]>>
    ELSE IF response.status # 200
    THEN <<RequestFailureInfo(get_pdsc_url(pdsc), response.status, "REQUEST_FAILED",
                              Some(Response(response)), Some(pdsc))>>
    ELSE <<>>

\* CanStartWorker with the cap off by one
CanStartWorker_OffByOne(inFlight) == inFlight <= max_workers

\* the executor lets a worker take the next work item only while fewer than
\* max_workers requests are in flight
CanStartWorker(inFlight) == inFlight < max_workers

\* SubmittedPdsc submitting the first descriptor every time
SubmittedPdsc_First(pdscs, i) == pdscs[1]

\* the descriptor whose url the i-th submit of the dict comprehension passes
\* to requests.get
SubmittedPdsc(pdscs, i) == pdscs[i]

\* futures_map with the descriptors in reverse
futures_map_Reversed(pdscs, t) == pdscs[Len(pdscs) + 1 - t]

\* futures_map[future]: the descriptor stored as the value of future t
futures_map(pdscs, t) == pdscs[t]

\* InitialFailures keeping the list of the previous call
InitialFailures_Kept(previous) == previous

\* failures = [] before the with statement, whatever the previous call returned
InitialFailures(previous) == <<>>

\* ShutdownDone with wait=False
ShutdownDone_NoWait(queued, inFlight) == TRUE

\* executor.shutdown(wait=True) returns: the workers have been joined, which
\* run every queued work item first
ShutdownDone(queued, inFlight) == queued = 0 /\ inFlight = {}

----------------------------------------------------------------------------
(* The log file *)

\* a line of the log file (the time stamp in front of it is left out)
Line(kind, n, text) == [kind |-> kind, n |-> n, text |-> text]

\* "        {hk}: {hv}" for each header of fail.response, if there is one
HeaderLines(fail) ==
    IF fail.response = None THEN <<>>
    ELSE [i \in DOMAIN fail.response[1].headers |->
              Line("header", 0, fail.response[1].headers[i])]

\* FailureLines writing the entries last to first
RECURSIVE FailureLines_Reversed(_)
FailureLines_Reversed(fs) ==
    IF fs = <<>> THEN <<>>
    ELSE FailureLines_Reversed(Tail(fs))
         \o <<Line("failure", Head(fs).status, Head(fs).url)>> \o HeaderLines(Head(fs))

\* the for loop over failures of run, into the log file
RECURSIVE FailureLines(_)
FailureLines(fs) ==
    IF fs = <<>> THEN <<>>
    ELSE <<Line("failure", Head(fs).status, Head(fs).url)>> \o HeaderLines(Head(fs))
         \o FailureLines(Tail(fs))

\* what run writes to the log file after check_pdscs returned failures
ReportLines(fs) ==
    (IF Len(fs) > 0
     THEN <<Line("count", Len(fs), <<>>)>> \o FailureLines(fs)
     ELSE <<Line("none", 0, <<>>)>>)
    \o <<Line("finished", 0, <<>>)>>

----------------------------------------------------------------------------
(* PackIndexMonitorTool.run and the threads of the executor *)

Intervals == {0, 60}
ArgVendors == {<<>>, << <<"*">> >>, << <<" ", "A", "R", "M">> >>}

N == Len(filtered)
Done == DOMAIN result
PoolActive == pc \in {"submit", "iterate", "unwind"}

InitMain ==
    /\ pc = "loop"
    /\ cycle = 0
    /\ interrupted = FALSE
    /\ exc = "none"
    /\ exitCode = -1
    /\ notice = FALSE
    /\ idxRequests = 0
    /\ ts = None
    /\ filtered = <<>>
    /\ nsub = 0
    /\ nstarted = 0
    /\ running = {}
    /\ hung = {}
    /\ result = << >>
    /\ happened = << >>
    /\ completed = <<>>
    /\ acStarted = FALSE
    /\ acFinished = {}
    /\ acQueue = <<>>
    /\ consumed = <<>>
    /\ failures = <<>>
    /\ reports = 0
    /\ log = <<>>
    /\ idxHappened = None
    /\ gets = <<>>
    /\ joinInterrupted = FALSE

InitPoolIdle ==
    /\ poolN = 0
    /\ poolSub = 0
    /\ poolStarted = 0
    /\ poolRunning = 0
    /\ poolDone = 0

Init ==
    /\ interval \in Intervals
    /\ isatty \in BOOLEAN
    /\ argVendors \in ArgVendors
    /\ logfile = FALSE
    /\ InitMain
    /\ InitPoolIdle

config == <<interval, isatty, argVendors, logfile>>
hist == <<log, idxHappened, gets, joinInterrupted>>
pool == <<nsub, nstarted, running, hung, result, happened, completed>>
ac == <<acStarted, acFinished, acQueue>>

\* top of the while loop of run: a new cycle starts, the locals of the last
\* call of check_pdscs are gone
StartCycle ==
    /\ pc = "loop"
    /\ pc' = "fetch"
    /\ cycle' = cycle + 1
    /\ idxRequests' = 0
    /\ ts' = None
    /\ filtered' = <<>>
    /\ nsub' = 0
    /\ nstarted' = 0
    /\ running' = {}
    /\ hung' = {}
    /\ result' = << >>
    /\ happened' = << >>
    /\ completed' = <<>>
    /\ acStarted' = FALSE
    /\ acFinished' = {}
    /\ acQueue' = <<>>
    /\ consumed' = <<>>
    /\ idxHappened' = None
    /\ gets' = <<>>
    /\ log' = IF logfile THEN Append(log, Line("started", 0, <<>>)) ELSE log
    /\ UNCHANGED <<poolVars, config, joinInterrupted, interrupted, exc, exitCode, notice, failures,
                   reports>>

\* check_pdscs up to the with statement: the index is fetched and filtered
RetrieveIndex ==
    /\ pc = "fetch"
    /\ \E b \in IndexBehaviours :
         LET r == retrieve_index(b)
         IN  /\ idxRequests' = idxRequests + 1
             /\ idxHappened' = Some(b)
             /\ IF r.kind = "raise" /\ r.exc = "RequestError"
                THEN /\ failures' = <<r.info[1]>>
                     /\ pc' = "report"
                     /\ UNCHANGED <<ts, filtered, exc, exitCode>>
                ELSE IF r.kind = "raise"
                THEN /\ exc' = r.exc
                     /\ pc' = "crashed"
                     /\ exitCode' = 1
                     /\ UNCHANGED <<ts, filtered, failures>>
                ELSE /\ ts' = r.ts
                     /\ filtered' = FilterPdscs(r.pdscs, Vendors(argVendors))
                     /\ failures' = InitialFailures(failures)
                     /\ pc' = "submit"
                     /\ UNCHANGED <<exc, exitCode>>
    /\ UNCHANGED <<poolVars, config, log, gets, joinInterrupted, cycle, interrupted, notice, pool, ac,
                   consumed, reports>>

\* executor.submit for the next descriptor of filtered_pdscs
Submit ==
    /\ pc = "submit"
    /\ nsub < N
    /\ nsub' = nsub + 1
    /\ UNCHANGED <<poolVars, config, hist, pc, cycle, interrupted, exc, exitCode, notice, idxRequests, ts,
                   filtered, nstarted, running, hung, result, happened, completed, ac, consumed,
                   failures, reports>>

\* futures_map is complete: the for loop starts; on a tty as_completed
\* collects the futures that have finished and installs its waiter
BeginIteration ==
    /\ pc = "submit"
    /\ nsub = N
    /\ pc' = "iterate"
    /\ IF isatty
       THEN /\ acStarted' = TRUE
            /\ acFinished' = Done
            /\ acQueue' = <<>>
       ELSE UNCHANGED ac
    /\ UNCHANGED <<poolVars, config, hist, cycle, interrupted, exc, exitCode, notice, idxRequests, ts,
                   filtered, pool, consumed, failures, reports>>

\* the body of the for loop for future t
LoopBody(t) ==
    IF result[t].kind = "raise"
    THEN /\ exc' = result[t].exc
         /\ pc' = "unwind"
         /\ UNCHANGED <<consumed, failures>>
    ELSE /\ consumed' = Append(consumed, t)
         /\ failures' = failures \o Classify(futures_map(filtered, t), result[t])
         /\ UNCHANGED <<exc, pc>>

\* not a tty: the for loop iterates futures_map, in submission order, and
\* future.result() waits for that future
NextSubmitted ==
    /\ pc = "iterate"
    /\ ~isatty
    /\ Len(consumed) < N
    /\ Len(consumed) + 1 \in Done
    /\ LoopBody(Len(consumed) + 1)
    /\ UNCHANGED <<poolVars, config, hist, cycle, interrupted, exitCode, notice, idxRequests, ts, filtered,
                   pool, ac, reports>>

\* a tty: the for loop iterates as_completed, which first yields the futures
\* that had finished when it started (a set: any order), then the others as
\* they finish
NextCompleted ==
    /\ pc = "iterate"
    /\ isatty
    /\ Len(consumed) < N
    /\ IF acFinished # {}
       THEN \E t \in acFinished :
                /\ acFinished' = acFinished \ {t}
                /\ UNCHANGED <<acStarted, acQueue>>
                /\ LoopBody(t)
       ELSE /\ acQueue # <<>>
            /\ acQueue' = Tail(acQueue)
            /\ UNCHANGED <<acStarted, acFinished>>
            /\ LoopBody(Head(acQueue))
    /\ UNCHANGED <<poolVars, config, hist, cycle, interrupted, exitCode, notice, idxRequests, ts, filtered,
                   pool, reports>>

\* the for loop is exhausted: the with statement shuts the executor down
\* (every future has finished) and check_pdscs returns failures
ReturnFailures ==
    /\ pc = "iterate"
    /\ Len(consumed) = N
    /\ ShutdownDone(nsub - nstarted, running)
    /\ pc' = "report"
    /\ UNCHANGED <<poolVars, config, hist, cycle, interrupted, exc, exitCode, notice, idxRequests, ts,
                   filtered, pool, ac, consumed, failures, reports>>

\* an exception leaves the with statement: executor.shutdown(wait=True) joins
\* the workers, which first run every queued work item; then the exception
\* reaches run, which handles KeyboardInterrupt only
Unwind ==
    /\ pc = "unwind"
    /\ ShutdownDone(nsub - nstarted, running)
    /\ IF exc = "KeyboardInterrupt"
       THEN /\ notice' = TRUE
            /\ pc' = "exited"
            /\ exitCode' = 0
       ELSE /\ pc' = "crashed"
            /\ exitCode' = 1
            /\ UNCHANGED notice
    /\ UNCHANGED <<poolVars, config, hist, cycle, interrupted, exc, idxRequests, ts, filtered, pool, ac,
                   consumed, failures, reports>>

\* run reports the cycle, then leaves the loop or sleeps
Report ==
    /\ pc = "report"
    /\ reports' = reports + 1
    /\ log' = IF logfile THEN log \o ReportLines(failures) ELSE log
    /\ IF interval = 0
       THEN /\ pc' = "exited"
            /\ exitCode' = 0
       ELSE /\ pc' = "sleep"
            /\ UNCHANGED exitCode
    /\ UNCHANGED <<poolVars, config, idxHappened, gets, joinInterrupted, cycle, interrupted, exc,
                   notice, idxRequests, ts, filtered, pool, ac, consumed, failures>>

\* sleep(args.interval) returns
SleepDone ==
    /\ pc = "sleep"
    /\ cycle < MaxCycles
    /\ pc' = "loop"
    /\ UNCHANGED <<poolVars, config, hist, cycle, interrupted, exc, exitCode, notice, idxRequests, ts,
                   filtered, pool, ac, consumed, failures, reports>>

\* KeyboardInterrupt is raised in the main thread: inside the with statement
\* it sends the main thread into executor.shutdown; raised there (a further
\* one, or one that arrives while another exception unwinds) it ends the wait
\* for the workers; anywhere else in the loop it goes straight to the handler
\* of run
Interrupt ==
    /\ ~interrupted \/ pc = "unwind"
    /\ pc \in {"loop", "fetch", "submit", "iterate", "unwind", "report", "sleep"}
    /\ interrupted' = TRUE
    /\ IF pc \in {"submit", "iterate"}
       THEN /\ exc' = "KeyboardInterrupt"
            /\ pc' = "unwind"
            /\ UNCHANGED <<notice, exitCode, joinInterrupted>>
       ELSE /\ exc' = "KeyboardInterrupt"
            /\ notice' = TRUE
            /\ pc' = "exited"
            /\ exitCode' = 0
            /\ joinInterrupted' = (pc = "unwind")
    /\ UNCHANGED <<poolVars, config, log, idxHappened, gets, cycle, idxRequests, ts, filtered, pool, ac, consumed, failures,
                   reports>>

\* a worker thread takes the next work item from the queue of the executor
WorkerStart ==
    /\ PoolActive
    /\ nstarted < nsub
    /\ CanStartWorker(Cardinality(running))
    /\ nstarted' = nstarted + 1
    /\ running' = running \cup {nstarted + 1}
    /\ gets' = Append(gets, [url  |-> get_pdsc_url(SubmittedPdsc(filtered, nstarted + 1)),
                             pdsc |-> SubmittedPdsc(filtered, nstarted + 1)])
    /\ UNCHANGED <<poolVars, config, log, idxHappened, joinInterrupted, pc, cycle, interrupted, exc, exitCode, notice, idxRequests, ts,
                   filtered, nsub, hung, result, happened, completed, ac, consumed, failures,
                   reports>>

\* the call of a work item ends (or turns out never to end): the future is
\* finished and the waiter of as_completed, if installed, is told
WorkerFinish ==
    /\ PoolActive
    /\ \E t \in running \ hung : \E b \in PdscBehaviours :
         LET r == SubmittedCall(SubmittedPdsc(filtered, t), b)
         IN  /\ happened' = happened @@ (t :> b)
             /\ IF r.kind = "hang"
                THEN /\ hung' = hung \cup {t}
                     /\ UNCHANGED <<running, result, completed, ac>>
                ELSE /\ running' = running \ {t}
                     /\ result' = result @@ (t :> r)
                     /\ completed' = Append(completed, t)
                     /\ acQueue' = IF acStarted THEN Append(acQueue, t) ELSE acQueue
                     /\ UNCHANGED <<hung, acStarted, acFinished>>
    /\ UNCHANGED <<poolVars, config, hist, pc, cycle, interrupted, exc, exitCode, notice, idxRequests, ts,
                   filtered, nsub, nstarted, consumed, failures, reports>>

MainStep ==
    \/ StartCycle
    \/ RetrieveIndex
    \/ Submit
    \/ BeginIteration
    \/ NextSubmitted
    \/ NextCompleted
    \/ ReturnFailures
    \/ Unwind
    \/ Report
    \/ SleepDone

WorkerStep ==
    \/ WorkerStart
    \/ WorkerFinish

Next ==
    \/ MainStep
    \/ WorkerStep
    \/ Interrupt

Spec == Init /\ [][Next]_vars

\* the scheduler runs every thread that can run
SpecFair == Spec /\ WF_vars(MainStep) /\ WF_vars(WorkerStep)

----------------------------------------------------------------------------
(* The executor alone, for any number of descriptors: lines 153-157 of       *)
(* check_pdscs with the requests counted instead of named, so that more     *)
(* descriptors than max_workers can be submitted.                           *)

InitPool ==
    /\ interval = 0
    /\ isatty = FALSE
    /\ argVendors = <<>>
    /\ logfile = FALSE
    /\ InitMain
    /\ poolN \in 0..MaxProbes
    /\ poolSub = 0
    /\ poolStarted = 0
    /\ poolRunning = 0
    /\ poolDone = 0

\* executor.submit for the next descriptor
PoolSubmit ==
    /\ poolSub < poolN
    /\ poolSub' = poolSub + 1
    /\ UNCHANGED <<mainVars, poolN, poolStarted, poolRunning, poolDone>>

\* a worker thread takes the next work item from the queue
PoolWorkerStart ==
    /\ poolStarted < poolSub
    /\ CanStartWorker(poolRunning)
    /\ poolStarted' = poolStarted + 1
    /\ poolRunning' = poolRunning + 1
    /\ UNCHANGED <<mainVars, poolN, poolSub, poolDone>>

\* the call of a work item ends, with a response or an exception
PoolWorkerFinish ==
    /\ poolRunning > 0
    /\ poolRunning' = poolRunning - 1
    /\ poolDone' = poolDone + 1
    /\ UNCHANGED <<mainVars, poolN, poolSub, poolStarted>>

NextPool ==
    \/ PoolSubmit
    \/ PoolWorkerStart
    \/ PoolWorkerFinish

SpecPool == InitPool /\ [][NextPool]_vars

----------------------------------------------------------------------------
(* run with a log file, check_pdscs taken as one step that returns a list   *)
(* of failures: lines 225-254 of run.                                       *)

\* the failure entry of the index fetch, for what the server may do
IndexFailures ==
    {retrieve_index(b).info[1] :
        b \in {x \in IndexBehaviours : retrieve_index(x).exc = "RequestError"}}

\* the failure entry of the probe of the i-th element, answered with status 404
ProbeFailure(i) ==
    Classify(Element(i), SubmittedCall(Element(i), Respond(404, NoBody)))[1]

\* the lists check_pdscs may return: the failure of the index fetch alone, or
\* entries of distinct descriptors in any order
ReturnedLists ==
    {<<f>> : f \in IndexFailures}
    \cup {[k \in DOMAIN l |-> ProbeFailure(l[k])] :
            l \in {m \in UNION {[1..n -> 1..MaxPdscs] : n \in 0..MaxPdscs} :
                      \A j, k \in DOMAIN m : j # k => m[j] # m[k]}}

InitLog ==
    /\ interval \in Intervals
    /\ isatty = FALSE
    /\ argVendors = <<>>
    /\ logfile = TRUE
    /\ InitMain
    /\ InitPoolIdle

\* failures = mon.check_pdscs() returns
CheckPdscs ==
    /\ pc = "fetch"
    /\ failures' \in ReturnedLists
    /\ pc' = "report"
    /\ UNCHANGED <<poolVars, config, hist, cycle, interrupted, exc, exitCode, notice, idxRequests,
                   ts, filtered, pool, ac, consumed, reports>>

NextLog ==
    \/ StartCycle
    \/ CheckPdscs
    \/ Report
    \/ SleepDone
    \/ Interrupt

SpecLog == InitLog /\ [][NextLog]_vars

----------------------------------------------------------------------------
(* Properties *)

\* position of x in seq
Pos(seq, x) == CHOOSE i \in DOMAIN seq : seq[i] = x
\* number of occurrences of x in seq
Count(seq, x) == Cardinality({i \in DOMAIN seq : seq[i] = x})

\* the probe run of a cycle whose index fetch succeeded is over and was not interrupted
ProbeRunOver == pc \in {"report", "crashed"} /\ ts # None /\ ~interrupted

\* descriptors whose request did not end in a 200 response
NotOk == {t \in 1..N : ~(t \in DOMAIN happened /\ happened[t].kind = "respond"
                          /\ happened[t].status = 200)}

\* what identifies a failure entry: url, cause, and the status for REQUEST_FAILED
EntryKey(e) == <<e.url, e.cause, IF e.cause = "REQUEST_FAILED" THEN e.status ELSE -1>>

\* the entry the request of descriptor t should leave, by what happened to it
ExpectedKey(t) ==
    IF t \notin DOMAIN happened THEN <<get_pdsc_url(filtered[t]), "NONE", -1>>
    ELSE IF happened[t].kind = "refuse"
    THEN <<get_pdsc_url(filtered[t]), "CONNECT_FAILED", -1>>
    ELSE IF happened[t].kind = "silent"
    THEN <<get_pdsc_url(filtered[t]), "REQUEST_TIMEOUT", -1>>
    ELSE <<get_pdsc_url(filtered[t]), "REQUEST_FAILED", happened[t].status>>

\* the descriptor (its index in filtered_pdscs) a failure entry is about
TaskOf(e) == CHOOSE t \in 1..N : get_pdsc_url(filtered[t]) = e.url

\* C1: during a probe run, for any number of descriptors, the number of
\* requests in flight never exceeds the cap of the pool (32).
C1_InFlightWithinCap == poolRunning <= max_workers

\* C1 witness: the cap is reached while work items are still queued
C1_CapReachedWithQueue == poolRunning = max_workers /\ poolStarted < poolSub

\* C2: when a probe run is over, the for loop has got the outcome of every
\* filtered descriptor exactly once; with no descriptor it got none and the
\* failure list is empty.
C2_EachOutcomeObservedOnce ==
    ProbeRunOver =>
        /\ \A t \in 1..N : Count(consumed, t) = 1
        /\ N = 0 => (consumed = <<>> /\ failures = <<>>)

\* C3: a probe request that errors does not abort the probe run: no exception
\* of a probe request leaves the for loop of check_pdscs.
C3_ProbeErrorDoesNotAbort ==
    ~(pc \in {"unwind", "crashed"} /\ exc \in {"ConnectionError", "Timeout"})

\* C4: when a probe run is over, the failure list holds one entry for exactly
\* the descriptors whose probe did not end in HTTP 200, each with the cause
\* (and, for a non-200 response, the status) of what happened to its request.
C4_FailuresClassified ==
    ProbeRunOver =>
        /\ Len(failures) = Cardinality(NotOk)
        /\ {EntryKey(failures[i]) : i \in DOMAIN failures} = {ExpectedKey(t) : t \in NotOk}

\* C5: the failure list check_pdscs returns is in completion order: an entry
\* of a request that finished earlier precedes an entry of one that finished
\* later, on a tty or not.
C5_FailuresInCompletionOrder ==
    (pc = "report" /\ ts # None) =>
        \A i, j \in DOMAIN failures :
            i < j => Pos(completed, TaskOf(failures[i])) < Pos(completed, TaskOf(failures[j]))

\* C6: every probe request is bounded by the request timeout: no request
\* whose server never responds waits forever.
C6_NoRequestWaitsForever == hung = {}

\* C7: a cycle whose index fetch fails issues no probe request and
\* check_pdscs returns exactly one failure, for the index url, to run.
C7_IndexFailureIsOneFailure ==
    [][(pc = "fetch" /\ pc' \notin {"fetch", "submit"} /\ ~interrupted')
        => /\ pc' = "report"
           /\ nsub' = 0 /\ nstarted' = 0
           /\ Len(failures') = 1
           /\ failures'[1].url = PIDX]_vars

\* C8: with interval = 0 the process ends after exactly one cycle (one index
\* fetch, one probe run, one report) with exit code 0, whatever the probes of
\* the cycle did. Stated for the cycles whose index fetch succeeded.
C8_OneCycleThenExitZero ==
    (interval = 0 /\ ts # None /\ ~interrupted /\ pc \in {"exited", "crashed"})
        => (exitCode = 0 /\ cycle = 1 /\ idxRequests = 1 /\ reports = 1)

\* C9: with interval > 0 and no interrupt the run loop never terminates,
\* whatever the outcome of a cycle. Stated for the cycles whose index fetch
\* succeeded.
C9_LoopNeverTerminates ==
    (interval > 0 /\ ts # None /\ ~interrupted) => pc \notin {"exited", "crashed"}

\* C10: after an interrupt during a probe run no request that had not started
\* executing is started.
C10_NoStartAfterInterrupt == [][interrupted => nstarted' = nstarted]_vars

\* the main thread waits in executor.shutdown for requests none of which will
\* ever return
JoinWaitsForever ==
    pc = "unwind" /\ nstarted = nsub /\ running # {} /\ running \subseteq hung

\* C11: once a KeyboardInterrupt has been delivered in the run loop the
\* process terminates with "Interrupted by user" printed and exit code 0: no
\* exception leaves run, and the main thread is never left waiting for ever.
C11_InterruptTerminates ==
    interrupted =>
        /\ pc # "crashed"
        /\ pc = "exited" => (notice /\ exitCode = 0)
        /\ ~JoinWaitsForever

\* the failure cause C12 gives for what the server did with the index
\* request, "none" where the index is to be returned
ExpectedIndexCause(b) ==
    IF b.kind = "refuse" THEN "CONNECT_FAILED"
    ELSE IF b.kind = "silent" THEN "REQUEST_TIMEOUT"
    ELSE IF b.status # 200 THEN "REQUEST_FAILED"
    ELSE IF ~b.body.xml \/ b.body.timestamp # Some(ValidTimestamp) THEN "INVALID_DATA"
    ELSE "none"

\* C12: retrieve_index issues exactly one request and either returns or
\* raises RequestError with one failure entry for the index url, whose cause
\* is CONNECT_FAILED, REQUEST_TIMEOUT, REQUEST_FAILED (with the status) or
\* INVALID_DATA (body not XML, timestamp missing or not ISO-8601); no other
\* error leaves it for malformed index data.
C12_IndexFetchClassified ==
    idxHappened # None =>
        /\ idxRequests = 1
        /\ exc \notin {"ValueError", "KeyError"}
        /\ ExpectedIndexCause(idxHappened[1]) # "none" =>
              /\ ts = None
              /\ Len(failures) = 1
              /\ failures[1].url = PIDX
              /\ failures[1].cause = ExpectedIndexCause(idxHappened[1])
              /\ failures[1].cause = "REQUEST_FAILED" =>
                     failures[1].status = idxHappened[1].status

\* a and b are equal when compared without regard to case
SameIgnoringCase(a, b) ==
    Len(a) = Len(b) /\ \A i \in DOMAIN a : casefold(<<a[i]>>) = casefold(<<b[i]>>)

\* the descriptors of the index retrieved in this cycle
IndexPdscs == idxHappened[1].body.pdscs

\* positions in the index of the descriptors whose vendor is a configured one
Selected ==
    LET vendors == Vendors(argVendors)
    IN  {i \in DOMAIN IndexPdscs :
            \E k \in DOMAIN vendors : SameIgnoringCase(IndexPdscs[i].vendor, vendors[k])}

\* the k-th smallest member of a set of numbers
Nth(S, k) == CHOOSE i \in S : Cardinality({j \in S : j <= i}) = k

\* C13: the vendor filter returns, in index order, exactly the descriptors
\* whose vendor equals a configured vendor without regard to case; with the
\* wildcard it returns every descriptor unchanged; filtering its result again
\* changes nothing.
C13_VendorFilter ==
    ts # None =>
        LET vendors == Vendors(argVendors)
            selected == Selected
        IN  /\ all_vendors(vendors) => filtered = IndexPdscs
            /\ ~all_vendors(vendors) =>
                  /\ Len(filtered) = Cardinality(selected)
                  /\ \A k \in DOMAIN filtered : filtered[k] = IndexPdscs[Nth(selected, k)]
            /\ FilterPdscs(filtered, vendors) = filtered

\* C13 witness: a filter that keeps two descriptors and drops one between them
C13_FilterKeepsSome ==
    /\ ts # None
    /\ ~all_vendors(Vendors(argVendors))
    /\ Len(filtered) = 2
    /\ Selected = {1, 3}

\* url, "/" unless url ends in one, vendor, ".", name, ".pdsc"
Concatenated(pdsc) ==
    pdsc.url \o (IF endswith(pdsc.url, "/") THEN <<>> ELSE <<"/">>)
    \o pdsc.vendor \o <<".">> \o pdsc.name \o <<".", "p", "d", "s", "c">>

\* C14: for every descriptor get_pdsc_url is the url, a "/" unless the url
\* ends in one, then vendor "." name ".pdsc": nothing of the url is removed.
C14_UrlIsConcatenation ==
    \A t \in DOMAIN filtered : get_pdsc_url(filtered[t]) = Concatenated(filtered[t])

\* the first position from i on that holds no header line
RECURSIVE SkipHeaders(_, _)
SkipHeaders(l, i) ==
    IF i <= Len(l) /\ l[i].kind = "header" THEN SkipHeaders(l, i + 1) ELSE i

\* the position behind n failure lines that start at i (each with its header
\* lines, if headers are allowed), 0 if the lines from i on are not that
RECURSIVE BehindEntries(_, _, _, _)
BehindEntries(l, i, n, headers) ==
    IF n = 0 THEN i
    ELSE IF i > Len(l) \/ l[i].kind # "failure" THEN 0
    ELSE BehindEntries(l, IF headers THEN SkipHeaders(l, i + 1) ELSE i + 1, n - 1, headers)

\* the lines of l from i on are blocks of cycles, one after the other; the
\* last one may be that of a cycle that has only started
RECURSIVE Blocks(_, _, _)
Blocks(l, i, headers) ==
    IF i > Len(l) THEN TRUE
    ELSE /\ l[i].kind = "started"
         /\ \/ i = Len(l)
            \/ /\ i + 2 <= Len(l)
               /\ l[i + 1].kind = "none"
               /\ l[i + 2].kind = "finished"
               /\ Blocks(l, i + 3, headers)
            \/ /\ i + 2 <= Len(l)
               /\ l[i + 1].kind = "count"
               /\ l[i + 1].n >= 1
               /\ LET e == BehindEntries(l, i + 2, l[i + 1].n, headers)
                  IN  e \in 1..Len(l) /\ l[e].kind = "finished" /\ Blocks(l, e + 1, headers)

\* the block of the cycle that started last
LastBlock == SubSeq(log, Max({i \in DOMAIN log : log[i].kind = "started"}), Len(log))

\* positions of the failure lines in a block
FailurePositions(block) == {i \in DOMAIN block : block[i].kind = "failure"}

\* run has reported the cycle that started last
CycleReported == cycle >= 1 /\ reports = cycle

\* the k-th failure line of block is that of the k-th entry of fs
EntryLinesInListOrder(block, fs) ==
    LET at == FailurePositions(block)
    IN  /\ Cardinality(at) = Len(fs)
        /\ \A k \in DOMAIN fs :
              LET line == block[Nth(at, k)]
              IN  line.n = fs[k].status /\ line.text = fs[k].url

\* number of header lines between the failure line at position i of block
\* and the next line that is not a header line
HeadersBehind(block, i) == SkipHeaders(block, i + 1) - (i + 1)

\* the k-th failure line of block is followed by one header line for each
\* header of the response of the k-th entry of fs
HeaderLinesPerEntry(block, fs) ==
    LET at == FailurePositions(block)
    IN  \A k \in DOMAIN fs :
            HeadersBehind(block, Nth(at, k)) =
                IF fs[k].response = None THEN 0 ELSE Len(fs[k].response[1].headers)

\* C15 as stated: the log is a sequence of blocks "Started", then "<n>
\* failures" and exactly n failure lines in list order or "No failures!",
\* then "Finished", with no other line in a block.
C15_BlocksOfEntryLinesOnly ==
    /\ Blocks(log, 1, FALSE)
    /\ CycleReported => EntryLinesInListOrder(LastBlock, failures)

\* the state part of C15 as amended
BlocksWithHeaders ==
    /\ Blocks(log, 1, TRUE)
    /\ CycleReported =>
          /\ EntryLinesInListOrder(LastBlock, failures)
          /\ HeaderLinesPerEntry(LastBlock, failures)

\* C15 amended: the log is a sequence of blocks "Started", then "<n>
\* failures" and n failure lines in list order, each followed by one further
\* indented line per header of the response of its entry (none for an entry
\* without a response), or "No failures!", then "Finished"; every step leaves
\* what the log held in place and only appends.
C15_BlocksWithHeaderLines ==
    /\ []BlocksWithHeaders
    /\ [][Len(log') >= Len(log) /\ SubSeq(log', 1, Len(log)) = log]_vars

\* C15 witness: a second cycle has been reported into the log, with an entry
\* that has a response with headers and one that has none
C15_TwoBlocksLogged ==
    /\ CycleReported
    /\ cycle = 2
    /\ Cardinality({i \in DOMAIN log : log[i].kind = "finished"}) = 2
    /\ \E k \in DOMAIN failures : failures[k].response # None
                                  /\ failures[k].response[1].headers # <<>>
    /\ \E i \in DOMAIN log : log[i].kind = "failure" /\ log[i].n = -1

\* number of GET requests issued in this cycle for the url of descriptor pdsc
GetsFor(pdsc) == Cardinality({i \in DOMAIN gets : gets[i].pdsc = pdsc})

NonOkConsumed ==
    SelectSeq(consumed, LAMBDA t : result[t].kind = "response" /\ result[t].status # 200)

\* C17: every entry made from a non-200 response names the descriptor whose
\* url was requested, that url, and the status the server answered that
\* request with, in whatever order the requests finish.
C17_EntryAttributed ==
    ts # None =>
        /\ Len(failures) = Len(NonOkConsumed)
        /\ \A i \in DOMAIN failures :
              /\ failures[i].pdsc = Some(gets[NonOkConsumed[i]].pdsc)
              /\ failures[i].url = gets[NonOkConsumed[i]].url
              /\ failures[i].status = happened[NonOkConsumed[i]].status

\* C17 witness: two entries of requests that were got in the reverse of the
\* order in which they were submitted
C17_EntriesOutOfSubmissionOrder ==
    /\ pc = "report"
    /\ ts # None
    /\ Len(failures) >= 2
    /\ NonOkConsumed[1] > NonOkConsumed[2]

\* no request of the cycle is queued or in flight
Drained == nstarted = nsub /\ running = {}

C19_ReportOnlyOwnFailures ==
    pc = "report" =>
        IF ts = None
        THEN /\ idxHappened # None
             /\ Len(failures) = 1
             /\ failures[1].url = PIDX
             /\ failures[1].cause = ExpectedIndexCause(idxHappened[1])
        ELSE /\ \A i \in DOMAIN failures :
                   \E t \in DOMAIN happened :
                       /\ gets[t].url = failures[i].url
                       /\ happened[t].kind = "respond"
                       /\ happened[t].status # 200
                       /\ happened[t].status = failures[i].status
             /\ \A i, j \in DOMAIN failures : i # j => failures[i].url # failures[j].url

\* C19 witness: the list of a second cycle, in which one descriptor failed
\* and another did not
C19_SecondCycleList ==
    /\ cycle = 2
    /\ pc = "report"
    /\ ts # None
    /\ N >= 2
    /\ Len(failures) = 1

\* C20: every descriptor in the filtered set, and so every descriptor a GET
\* is issued for, has a vendor, a name and a version that are not empty.
C20_ProbedDescriptorsComplete ==
    /\ \A t \in DOMAIN filtered :
          filtered[t].vendor # <<>> /\ filtered[t].name # <<>> /\ filtered[t].version # <<>>
    /\ \A i \in DOMAIN gets :
          gets[i].pdsc.vendor # <<>> /\ gets[i].pdsc.name # <<>> /\ gets[i].pdsc.version # <<>>

====
